---- MODULE Spec2Model ----
(***************************************************************************)
(* Zone-residency tracker of python/resident_time.py: CumulativeAvg, ATM,  *)
(* ResidentPerson and Bank, driven by OutputMessages.                      *)
(*                                                                         *)
(* Python floats are IEEE-754 binary64 values.  They are modelled bit for  *)
(* bit: a float is a sign, a 53-bit significand and a binary exponent, and *)
(* every arithmetic operation rounds to nearest, ties to even.  TLC's      *)
(* integers are 32 bits wide, so significands are kept as little-endian    *)
(* sequences of 15-bit limbs.                                              *)
(***************************************************************************)
EXTENDS Integers, Sequences, FiniteSets, TLC

(***************************************************************************)
(* Natural numbers of arbitrary size: <<>> is 0, limb 1 is the least       *)
(* significant, the last limb is never 0.                                  *)
(***************************************************************************)
Base == 2^15

Abs(k) == IF k < 0 THEN -k ELSE k

Sgn(k) == IF k < 0 THEN -1 ELSE IF k = 0 THEN 0 ELSE 1

RECURSIVE NatTrim(_)
NatTrim(a) ==
    IF a = <<>> THEN <<>>
    ELSE IF a[Len(a)] = 0 THEN NatTrim(SubSeq(a, 1, Len(a) - 1))
    ELSE a

RECURSIVE NatOfInt(_)
NatOfInt(k) == IF k = 0 THEN <<>> ELSE <<k % Base>> \o NatOfInt(k \div Base)

RECURSIVE NatAddC(_, _, _)
NatAddC(a, b, c) ==
    IF a = <<>> /\ b = <<>> THEN (IF c = 0 THEN <<>> ELSE <<c>>)
    ELSE LET x == IF a = <<>> THEN 0 ELSE Head(a)
             y == IF b = <<>> THEN 0 ELSE Head(b)
             s == x + y + c
         IN  <<s % Base>> \o NatAddC(IF a = <<>> THEN <<>> ELSE Tail(a),
                                     IF b = <<>> THEN <<>> ELSE Tail(b),
                                     s \div Base)

NatAdd(a, b) == NatAddC(a, b, 0)

\* a - b - c for a >= b + c
RECURSIVE NatSubB(_, _, _)
NatSubB(a, b, c) ==
    IF a = <<>> THEN <<>>
    ELSE LET y == IF b = <<>> THEN 0 ELSE Head(b)
             d == Head(a) - y - c
         IN  <<d % Base>> \o NatSubB(Tail(a),
                                     IF b = <<>> THEN <<>> ELSE Tail(b),
                                     IF d < 0 THEN 1 ELSE 0)

NatSub(a, b) == NatTrim(NatSubB(a, b, 0))

\* -1, 0, 1 as a < b, a = b, a > b
RECURSIVE NatCmp(_, _)
NatCmp(a, b) ==
    IF Len(a) # Len(b) THEN (IF Len(a) < Len(b) THEN -1 ELSE 1)
    ELSE IF a = <<>> THEN 0
    ELSE IF a[Len(a)] # b[Len(b)] THEN (IF a[Len(a)] < b[Len(b)] THEN -1 ELSE 1)
    ELSE NatCmp(SubSeq(a, 1, Len(a) - 1), SubSeq(b, 1, Len(b) - 1))

\* a * k + c for 0 <= k < Base
RECURSIVE NatMulSmallC(_, _, _)
NatMulSmallC(a, k, c) ==
    IF a = <<>> THEN (IF c = 0 THEN <<>> ELSE <<c>>)
    ELSE LET p == Head(a) * k + c
         IN  <<p % Base>> \o NatMulSmallC(Tail(a), k, p \div Base)

NatMulSmall(a, k) == NatTrim(NatMulSmallC(a, k, 0))

RECURSIVE NatMul(_, _)
NatMul(a, b) ==
    IF a = <<>> \/ b = <<>> THEN <<>>
    ELSE LET hi == NatMul(a, Tail(b))
         IN  NatAdd(NatMulSmall(a, Head(b)),
                    IF hi = <<>> THEN <<>> ELSE <<0>> \o hi)

\* <<quotient limbs (untrimmed), remainder>> of a by 0 < k < Base, from the top limb
RECURSIVE NatDivSmallR(_, _)
NatDivSmallR(a, k) ==
    IF a = <<>> THEN <<(<<>>), 0>>
    ELSE LET hi  == NatDivSmallR(Tail(a), k)
             cur == hi[2] * Base + Head(a)
         IN  <<(<<cur \div k>> \o hi[1]), cur % k>>

NatDivSmall(a, k) ==
    LET qr == NatDivSmallR(a, k) IN <<NatTrim(qr[1]), qr[2]>>

RECURSIVE IntBitLen(_)
IntBitLen(k) == IF k = 0 THEN 0 ELSE 1 + IntBitLen(k \div 2)

NatBitLen(a) ==
    IF a = <<>> THEN 0 ELSE 15 * (Len(a) - 1) + IntBitLen(a[Len(a)])

Zeros(n) == [i \in 1..n |-> 0]

\* a * 2^n
NatShl(a, n) ==
    IF a = <<>> THEN <<>>
    ELSE Zeros(n \div 15) \o NatMulSmall(a, 2^(n % 15))

\* <<floor(a / 2^n), whether a nonzero bit was shifted out>>
NatShr(a, n) ==
    LET q    == n \div 15
        low  == SubSeq(a, 1, IF q < Len(a) THEN q ELSE Len(a))
        high == IF q < Len(a) THEN SubSeq(a, q + 1, Len(a)) ELSE <<>>
        qr   == NatDivSmall(high, 2^(n % 15))
    IN  <<qr[1], (qr[2] # 0) \/ (\E i \in 1..Len(low) : low[i] # 0)>>

NatIsOdd(a) == a # <<>> /\ a[1] % 2 = 1

(***************************************************************************)
(* binary64 values: [s, m, e] is s * m * 2^e with s in {-1, 0, 1}; a       *)
(* nonzero float has a significand m of exactly 53 bits, zero is           *)
(* [s |-> 0, m |-> <<>>, e |-> 0].  The exponent range is not modelled:    *)
(* no value here comes near overflow or the subnormals.                    *)
(***************************************************************************)
FZero == [s |-> 0, m |-> <<>>, e |-> 0]

\* the float nearest to s * (n + sticky) * 2^e, ties to even; sticky stands
\* for a nonzero amount below one unit of n
FRound(s, n, e, sticky) ==
    IF n = <<>> \/ s = 0 THEN FZero
    ELSE LET len == NatBitLen(n) IN
         IF len <= 53 THEN [s |-> s, m |-> NatShl(n, 53 - len), e |-> e - (53 - len)]
         ELSE LET sh    == len - 53
                  g     == NatShr(n, sh - 1)
                  guard == NatIsOdd(g[1])
                  q     == NatShr(g[1], 1)[1]
                  up    == guard /\ (g[2] \/ sticky \/ NatIsOdd(q))
                  r     == IF up THEN NatAdd(q, <<1>>) ELSE q
              IN  IF NatBitLen(r) = 54
                  THEN [s |-> s, m |-> NatShr(r, 1)[1], e |-> e + sh + 1]
                  ELSE [s |-> s, m |-> r, e |-> e + sh]

\* float(k) for a Python int k
FloatOfInt(k) == FRound(Sgn(k), NatOfInt(Abs(k)), 0, FALSE)

\* a / n, Python's true division of ints, for a >= 0 and 0 < n < Base
FDivInt(a, n) ==
    LET qr == NatDivSmall(NatShl(NatOfInt(a), 75), n)
    IN  FRound(Sgn(a), qr[1], -75, qr[2] # 0)

FMul(x, y) == FRound(x.s * y.s, NatMul(x.m, y.m), x.e + y.e, FALSE)

\* the exact sum of two values [s, m, e], not rounded and not normalised
ExactAdd(x, y) ==
    IF x.s = 0 THEN y
    ELSE IF y.s = 0 THEN x
    ELSE LET e  == IF x.e < y.e THEN x.e ELSE y.e
             xm == NatShl(x.m, x.e - e)
             ym == NatShl(y.m, y.e - e)
             c  == NatCmp(xm, ym)
         IN  IF x.s = y.s THEN [s |-> x.s, m |-> NatAdd(xm, ym), e |-> e]
             ELSE IF c = 0 THEN FZero
             ELSE IF c > 0 THEN [s |-> x.s, m |-> NatSub(xm, ym), e |-> e]
             ELSE [s |-> y.s, m |-> NatSub(ym, xm), e |-> e]

FAdd(x, y) ==
    LET z == ExactAdd(x, y) IN FRound(z.s, z.m, z.e, FALSE)

(***************************************************************************)
(* class CumulativeAvg: an object is [avg, count].                         *)
(***************************************************************************)
CumulativeAvg_init == [avg |-> FZero, count |-> 0]

\* faulty variant: the new number is weighted as if one more value had been seen
cumulative_average_late_weight(prev_avg, new_number, list_length) ==
    LET old_weight == FDivInt(list_length - 1, list_length)
        new_weight == FDivInt(1, list_length + 1)
    IN  FAdd(FMul(prev_avg, old_weight), FMul(FloatOfInt(new_number), new_weight))

cumulative_average(prev_avg, new_number, list_length) ==
    LET old_weight == FDivInt(list_length - 1, list_length)
        new_weight == FDivInt(1, list_length)
    IN  FAdd(FMul(prev_avg, old_weight), FMul(FloatOfInt(new_number), new_weight))

CumulativeAvg_update(self, value) ==
    LET count == self.count + 1
    IN  [avg |-> cumulative_average(self.avg, value, count), count |-> count]

CumulativeAvg_get(self) == self.avg

(***************************************************************************)
(* Values of the message schema.  A Timestamp is [seconds, nanos];         *)
(* Timestamp.ToSeconds() is its whole seconds.  An object snapshot is      *)
(* [id, bbox_size_z, label, zone_ids]; bbox_size_z is bbox.size.z in       *)
(* tenths of a length unit, zone_ids the repeated field in its order.      *)
(***************************************************************************)
\* an optional value: None is <<>>, a present value v is <<v>>
None == <<>>

Some(v) == <<v>>

Value(opt) == opt[1]

Timestamp(sec, ns) == [seconds |-> sec, nanos |-> ns]

ToSeconds(t) == t.seconds

\* dict helpers: a dict is a function whose DOMAIN is its key set
DictSet(d, k, v) == [x \in DOMAIN d \cup {k} |-> IF x = k THEN v ELSE d[x]]

DictDel(d, k) == [x \in DOMAIN d \ {k} |-> d[x]]

DictGet(d, k) == IF k \in DOMAIN d THEN Some(d[k]) ELSE None

EmptyDict == [x \in {} |-> None]

(***************************************************************************)
(* class ATM: [residents, target_zone_id, resident_avg].  Each method      *)
(* returns the object after the call with the call's locals and prints.    *)
(***************************************************************************)
time_to_assume_noisy_obj == 2

ATM_init(target_zone_id) ==
    [residents |-> EmptyDict,
     target_zone_id |-> target_zone_id,
     resident_avg |-> CumulativeAvg_init]

\* faulty variant: the entry time is overwritten by every entry event
ATM_on_enter_overwrite(self, obj_id, timestamp) ==
    [self EXCEPT !.residents = DictSet(self.residents, obj_id, timestamp)]

ATM_on_enter(self, obj_id, timestamp) ==
    IF obj_id \notin DOMAIN self.residents
    THEN [self EXCEPT !.residents = DictSet(self.residents, obj_id, timestamp)]
    ELSE self

\* faulty variant: the del sits inside the threshold test
ATM_on_exit_del_when_counted(self, obj_id, timestamp) ==
    LET start_time == DictGet(self.residents, obj_id) IN
    IF start_time # None
    THEN LET resident_time == ToSeconds(timestamp) - ToSeconds(Value(start_time))
         IN  [self |-> IF resident_time > time_to_assume_noisy_obj
                       THEN [self EXCEPT
                               !.resident_avg =
                                   CumulativeAvg_update(self.resident_avg, resident_time),
                               !.residents = DictDel(self.residents, obj_id)]
                       ELSE self,
              start_time |-> start_time,
              resident_time |-> Some(resident_time),
              printed |-> <<>>]
    ELSE [self |-> self, start_time |-> None, resident_time |-> None,
          printed |-> <<[line |-> "Error: not exist in ATM", obj_id |-> obj_id,
                         zone_id |-> self.target_zone_id]>>]

ATM_on_exit(self, obj_id, timestamp) ==
    LET start_time == DictGet(self.residents, obj_id) IN
    IF start_time # None
    THEN LET resident_time == ToSeconds(timestamp) - ToSeconds(Value(start_time))
             avg == IF resident_time > time_to_assume_noisy_obj
                    THEN CumulativeAvg_update(self.resident_avg, resident_time)
                    ELSE self.resident_avg
         IN  [self |-> [self EXCEPT !.resident_avg = avg,
                                    !.residents = DictDel(self.residents, obj_id)],
              start_time |-> start_time,
              resident_time |-> Some(resident_time),
              printed |-> <<>>]
    ELSE [self |-> self,
          start_time |-> None,
          resident_time |-> None,
          printed |-> <<[line |-> "Error: not exist in ATM", obj_id |-> obj_id,
                         zone_id |-> self.target_zone_id]>>]

ATM_get_avg_resident_time(self) == CumulativeAvg_get(self.resident_avg)

(***************************************************************************)
(* class ResidentPerson: [id, enter_zone, histories, born_time];           *)
(* enter_zone is optional.                                                 *)
(***************************************************************************)
LABEL_MISC == "LABEL_MISC"

door_initial_min_height == 9990

door_min_height == 25

\* "not self._enter_zone" holds for None and for zone id 0
update_starting_zone(self, obj) ==
    IF (self.enter_zone = None \/ self.enter_zone = Some(0)) /\ obj.zone_ids # <<>>
    THEN [self EXCEPT !.enter_zone = Some(Head(obj.zone_ids))]
    ELSE self

\* faulty variant: the record takes the first zone id of the snapshot as its id
ResidentPerson_init_zone_as_id(id, obj, timestamp) ==
    LET fresh == [id |-> IF obj.zone_ids # <<>> THEN Head(obj.zone_ids) ELSE id,
                  enter_zone |-> None, histories |-> <<>>,
                  born_time |-> timestamp]
    IN  [update_starting_zone(fresh, obj) EXCEPT !.histories = <<obj>>]

ResidentPerson_init(id, obj, timestamp) ==
    LET fresh == [id |-> id, enter_zone |-> None, histories |-> <<>>,
                  born_time |-> timestamp]
    IN  [update_starting_zone(fresh, obj) EXCEPT !.histories = <<obj>>]

RECURSIVE min_height_loop(_, _)
min_height_loop(min_height, histories) ==
    IF histories = <<>> THEN min_height
    ELSE min_height_loop(IF min_height > Head(histories).bbox_size_z
                         THEN Head(histories).bbox_size_z ELSE min_height,
                         Tail(histories))

\* faulty variant: the running minimum starts below every height
is_door_min_from_zero(self) ==
    min_height_loop(0, self.histories) > door_min_height

is_door(self) ==
    min_height_loop(door_initial_min_height, self.histories) > door_min_height

is_misc(self) ==
    \A i \in 1..Len(self.histories) : self.histories[i].label = LABEL_MISC

starting_zone(self) == self.enter_zone

born_timestamp(self) == self.born_time

push_history(self, obj) ==
    update_starting_zone([self EXCEPT !.histories = Append(self.histories, obj)], obj)

(***************************************************************************)
(* class Bank: [residents, resident_avg, ATMs, zone_info].  zone_info is   *)
(* what the server's settings/zone resource returned at start-up.  Each    *)
(* handler returns the object after the call, the call's locals, what it   *)
(* printed and the exception it raised (Ok when it returned normally).  A  *)
(* printed line records the values put into the line, not the formatted    *)
(* text.                                                                   *)
(***************************************************************************)
Ok == "ok"

too_long_resident_time == 3600

FirstATM == 1007

LastATM == 1011

zone_info_at_startup == (1007 :> "ATM 1") @@ (1008 :> "ATM 2") @@ (5 :> "Lobby")

Bank_init ==
    [residents |-> EmptyDict,
     resident_avg |-> CumulativeAvg_init,
     ATMs |-> [z \in FirstATM..LastATM |-> ATM_init(z)],
     zone_info |-> zone_info_at_startup]

time_diff_in_s(time1, time2) == ToSeconds(time1) - ToSeconds(time2)

\* [raised, value]
Bank_zone_name(self, zone_id) ==
    IF zone_id # None
    THEN IF Value(zone_id) \in DOMAIN self.zone_info
         THEN [raised |-> Ok, value |-> self.zone_info[Value(zone_id)]]
         ELSE [raised |-> "KeyError", value |-> ""]
    ELSE [raised |-> Ok, value |-> "No Zone"]

\* faulty variant: an entry at a zone that is not watched goes to the first ATM
Bank_on_entry_event_handler_default_atm(self, zone_id, obj_id, timestamp) ==
    LET found_atm == DictGet(self.ATMs, zone_id) IN
    [self |-> IF found_atm # None
              THEN [self EXCEPT !.ATMs[zone_id] =
                        ATM_on_enter(Value(found_atm), obj_id, timestamp)]
              ELSE [self EXCEPT !.ATMs[FirstATM] =
                        ATM_on_enter(self.ATMs[FirstATM], obj_id, timestamp)],
     found |-> FALSE, start_time |-> None, resident_time |-> None,
     printed |-> <<>>, raised |-> Ok]

Bank_on_entry_event_handler(self, zone_id, obj_id, timestamp) ==
    LET found_atm == DictGet(self.ATMs, zone_id) IN
    [self |-> IF found_atm # None
              THEN [self EXCEPT !.ATMs[zone_id] =
                        ATM_on_enter(Value(found_atm), obj_id, timestamp)]
              ELSE self,
     found |-> FALSE, start_time |-> None, resident_time |-> None,
     printed |-> <<>>, raised |-> Ok]

\* after found_atm.on_exit returned r: the print of the ATM's average
exit_event_print(self, zone_id, r) ==
    [self |-> [self EXCEPT !.ATMs[zone_id] = r.self],
     found |-> r.start_time # None,
     start_time |-> r.start_time,
     resident_time |-> r.resident_time,
     printed |-> Append(r.printed,
                        [line |-> "ATM avg", zone_id |-> r.self.target_zone_id,
                         avg |-> ATM_get_avg_resident_time(r.self)]),
     raised |-> Ok]

\* faulty variant: on_exit deletes the entry without looking it up first
Bank_on_exit_event_handler_unguarded(self, zone_id, obj_id, timestamp) ==
    IF DictGet(self.ATMs, zone_id) = None
    THEN [self |-> self, found |-> FALSE, start_time |-> None, resident_time |-> None,
          printed |-> <<>>, raised |-> Ok]
    ELSE IF obj_id \in DOMAIN self.ATMs[zone_id].residents
    THEN exit_event_print(self, zone_id,
                          ATM_on_exit(self.ATMs[zone_id], obj_id, timestamp))
    ELSE [self |-> self, found |-> FALSE, start_time |-> None, resident_time |-> None,
          printed |-> <<>>, raised |-> "KeyError"]

Bank_on_exit_event_handler(self, zone_id, obj_id, timestamp) ==
    IF DictGet(self.ATMs, zone_id) # None
    THEN exit_event_print(self, zone_id,
                          ATM_on_exit(self.ATMs[zone_id], obj_id, timestamp))
    ELSE [self |-> self, found |-> FALSE, start_time |-> None, resident_time |-> None,
          printed |-> <<>>, raised |-> Ok]

\* after self._resident_avg.update(resident_time): the print, whose line calls
\* _zone_name (name is what that call gave), and the del
\* faulty variant: the lost person's pending entries leave the ATMs too
losing_person_print_clear_atms(self, obj_id, resident_time, name) ==
    IF name.raised # Ok
    THEN [self |-> self,
          found |-> TRUE, start_time |-> None, resident_time |-> Some(resident_time),
          printed |-> <<>>, raised |-> name.raised]
    ELSE [self |-> [self EXCEPT
                      !.residents = DictDel(self.residents, obj_id),
                      !.ATMs = [z \in DOMAIN self.ATMs |->
                                   [self.ATMs[z] EXCEPT
                                      !.residents = DictDel(@, obj_id)]]],
          found |-> TRUE, start_time |-> None, resident_time |-> Some(resident_time),
          printed |-> <<[line |-> "Obj resident_time", obj_id |-> obj_id,
                         resident_time |-> resident_time,
                         avg |-> CumulativeAvg_get(self.resident_avg),
                         starting_zone |-> name.value]>>,
          raised |-> Ok]

losing_person_print(self, obj_id, resident_time, name) ==
    IF name.raised # Ok
    THEN \* raised while the line was being built: no print, no del
         [self |-> self,
          found |-> TRUE, start_time |-> None, resident_time |-> Some(resident_time),
          printed |-> <<>>, raised |-> name.raised]
    ELSE [self |-> [self EXCEPT !.residents = DictDel(self.residents, obj_id)],
          found |-> TRUE, start_time |-> None, resident_time |-> Some(resident_time),
          printed |-> <<[line |-> "Obj resident_time", obj_id |-> obj_id,
                         resident_time |-> resident_time,
                         avg |-> CumulativeAvg_get(self.resident_avg),
                         starting_zone |-> name.value]>>,
          raised |-> Ok]

\* faulty variant: a loss event for an object without a record is passed over
Bank_on_losing_event_handler_skip_unknown(self, obj_id, timestamp) ==
    LET resident == DictGet(self.residents, obj_id) IN
    IF resident = None
    THEN [self |-> self, found |-> FALSE, start_time |-> None, resident_time |-> None,
          printed |-> <<>>, raised |-> Ok]
    ELSE IF ~is_misc(Value(resident)) /\ ~is_door(Value(resident))
    THEN LET resident_time == time_diff_in_s(timestamp, born_timestamp(Value(resident)))
         IN  losing_person_print(
                 [self EXCEPT !.resident_avg =
                      CumulativeAvg_update(self.resident_avg, resident_time)],
                 obj_id, resident_time,
                 Bank_zone_name(self, starting_zone(Value(resident))))
    ELSE [self |-> [self EXCEPT !.residents = DictDel(self.residents, obj_id)],
          found |-> TRUE, start_time |-> None, resident_time |-> None,
          printed |-> <<[line |-> IF is_misc(Value(resident))
                                  THEN "is misc." ELSE "is door.",
                         obj_id |-> obj_id]>>,
          raised |-> Ok]

Bank_on_losing_event_handler(self, obj_id, timestamp) ==
    LET resident == DictGet(self.residents, obj_id) IN
    IF resident = None
    THEN \* resident.is_misc() on None
         [self |-> self, found |-> FALSE, start_time |-> None, resident_time |-> None,
          printed |-> <<>>, raised |-> "AttributeError"]
    ELSE IF ~is_misc(Value(resident)) /\ ~is_door(Value(resident))
    THEN LET resident_time == time_diff_in_s(timestamp, born_timestamp(Value(resident)))
         IN  losing_person_print(
                 [self EXCEPT !.resident_avg =
                      CumulativeAvg_update(self.resident_avg, resident_time)],
                 obj_id, resident_time,
                 Bank_zone_name(self, starting_zone(Value(resident))))
    ELSE [self |-> [self EXCEPT !.residents = DictDel(self.residents, obj_id)],
          found |-> TRUE, start_time |-> None, resident_time |-> None,
          printed |-> <<[line |-> IF is_misc(Value(resident))
                                  THEN "is misc." ELSE "is door.",
                         obj_id |-> obj_id]>>,
          raised |-> Ok]

\* the body of the loop over message.stream.objects
Bank_on_stream_object(self, obj, timestamp) ==
    LET found_obj == DictGet(self.residents, obj.id) IN
    IF found_obj = None
    THEN [self |-> [self EXCEPT !.residents =
                        DictSet(self.residents, obj.id,
                                ResidentPerson_init(obj.id, obj, timestamp))],
          found |-> FALSE, start_time |-> None, resident_time |-> None,
          printed |-> <<>>, raised |-> Ok]
    ELSE LET pushed == push_history(Value(found_obj), obj) IN
         IF time_diff_in_s(timestamp, born_timestamp(pushed)) > too_long_resident_time
         THEN [self |-> [self EXCEPT !.residents = DictDel(self.residents, obj.id)],
               found |-> TRUE, start_time |-> None, resident_time |-> None,
               printed |-> <<[line |-> "lives in bank too long.", obj_id |-> obj.id]>>,
               raised |-> Ok]
         ELSE [self |-> [self EXCEPT !.residents = DictSet(self.residents, obj.id, pushed)],
               found |-> TRUE, start_time |-> None, resident_time |-> None,
               printed |-> <<>>, raised |-> Ok]

(***************************************************************************)
(* The listener.  bank is the Bank object; message is the OutputMessage    *)
(* being handled by _on_get_output_message, cut down to the items its      *)
(* loops have not reached yet (NoMessage between messages); call is the    *)
(* handler call that has just returned: its event, its locals, what it     *)
(* printed and what it raised.  first_enter is a history variable: for     *)
(* each watched (zone, object) the timestamp of the first entry event      *)
(* since the pair's last exit event.  source names the set of messages the *)
(* message source may send (it never changes).  avgtest is used by SpecAvg *)
(* alone.  dwells is a history variable too: for each watched zone, the    *)
(* exits that closed an entry of first_enter more than 2.0 s after it, as   *)
(* the time between the two event timestamps in milliseconds (seconds and  *)
(* nanos both counted), in the order of the exits.  lifecycle is the third *)
(* history variable: for each object id that an object update has named    *)
(* since the id's last loss event, "seen", or "evicted" once a forced       *)
(* eviction has removed a record of the id.  created is the fourth: the    *)
(* object ids whose record was created by a stream object of the message   *)
(* in hand.                                                                *)
(***************************************************************************)
VARIABLES bank, message, call, first_enter, dwells, lifecycle, created, source,
          avgtest

vars == <<bank, message, call, first_enter, dwells, lifecycle, created, source,
          avgtest>>

NoMessage == [timestamp |-> None, objects |-> <<>>, zone |-> <<>>, losing |-> <<>>]

NoCall == [handler |-> "none", event |-> None, timestamp |-> None, found |-> FALSE,
           start_time |-> None, resident_time |-> None, printed |-> <<>>,
           raised |-> Ok]

CallOf(handler, event, timestamp, r) ==
    [handler |-> handler, event |-> Some(event), timestamp |-> Some(timestamp),
     found |-> r.found, start_time |-> r.start_time,
     resident_time |-> r.resident_time, printed |-> r.printed, raised |-> r.raised]

\* what is left of the message once the loops have run out of items
Rest(m) ==
    IF m.objects = <<>> /\ m.zone = <<>> /\ m.losing = <<>> THEN NoMessage ELSE m

\* an exception leaves _on_get_output_message: the rest of the message is dropped
AfterCall(m, r) == IF r.raised # Ok THEN NoMessage ELSE Rest(m)

NoAvgTest == [a |-> CumulativeAvg_init, b |-> CumulativeAvg_init,
              todo_a |-> <<>>, todo_b |-> <<>>, fed |-> <<>>]

Started(src) ==
    /\ bank = Bank_init
    /\ message = NoMessage
    /\ call = NoCall
    /\ first_enter = EmptyDict
    /\ dwells = [z \in FirstATM..LastATM |-> <<>>]
    /\ lifecycle = EmptyDict
    /\ created = {}
    /\ source = src
    /\ avgtest = NoAvgTest

Init == Started("all")

(***************************************************************************)
(* Bounds of the inputs.                                                   *)
(***************************************************************************)
MaxObjects == 1

MaxZoneEvents == 1

MaxLosing == 1

MaxCount == 2

MaxHist == 2

SeqsUpTo(S, n) == UNION {[1..k -> S] : k \in 0..n}

\* the messages over the given items; message.timestamp is read for stream
\* objects alone, so a message without any is given the first of Times
Messages(Times, Objs, ZoneEvs, LosEvs) ==
    LET first == CHOOSE t \in Times : \A u \in Times : ToSeconds(t) <= ToSeconds(u)
    IN  {m \in {[timestamp |-> Some(t), objects |-> os, zone |-> zs, losing |-> ls] :
                   t \in Times, os \in SeqsUpTo(Objs, MaxObjects),
                   zs \in SeqsUpTo(ZoneEvs, MaxZoneEvents),
                   ls \in SeqsUpTo(LosEvs, MaxLosing)} :
            m.objects = <<>> => m.timestamp = Some(first)}

Range(sq) == {sq[i] : i \in 1..Len(sq)}

\* the number of events of the sequence that belong to the set
Count(sq, S) == Cardinality({i \in 1..Len(sq) : sq[i] \in S})

\* the message keeps every running average's count and every history of dwells
\* within MaxCount, and every record's history within MaxHist
InBounds(m) ==
    /\ bank.resident_avg.count + Len(m.losing) <= MaxCount
    /\ \A z \in DOMAIN bank.ATMs :
          bank.ATMs[z].resident_avg.count
            + Count(m.zone, {ev \in Range(m.zone) : ev.type = "EXIT" /\ ev.id = z}) <= MaxCount
    /\ \A z \in DOMAIN dwells :
          Len(dwells[z])
            + Count(m.zone, {ev \in Range(m.zone) : ev.type = "EXIT" /\ ev.id = z}) <= MaxCount
    /\ \A i \in 1..Len(m.objects) :
          LET id == m.objects[i].id IN
          (IF id \in DOMAIN bank.residents
           THEN Len(bank.residents[id].histories) ELSE 0)
            + Count(m.objects, {o \in Range(m.objects) : o.id = id}) <= MaxHist

(***************************************************************************)
(* The messages each source may send.                                      *)
(***************************************************************************)
Snapshot(id, z, label, zone_ids) ==
    [id |-> id, bbox_size_z |-> z, label |-> label, zone_ids |-> zone_ids]

Person(id, zone_ids) == Snapshot(id, 17, "LABEL_PEDESTRIAN", zone_ids)

ZoneEvent(type, id, object_id, timestamp) ==
    [type |-> type, id |-> id, object_id |-> object_id, timestamp |-> timestamp]

LosingEvent(id, timestamp) == [id |-> id, timestamp |-> timestamp]

Nanos29 == 9 * 10^8

\* every kind of event, over a small set of values
AllMessages ==
    Messages({Timestamp(0, 0), Timestamp(3600, Nanos29), Timestamp(3601, 0)},
             {Person(1, <<1007>>)},
             {ZoneEvent(ty, z, 1, t) :
                 ty \in {"ENTRY", "EXIT"}, z \in {1007, 42},
                 t \in {Timestamp(0, 0), Timestamp(3, 0)}}
               \cup {ZoneEvent("NONE", 1007, 1, Timestamp(0, 0))},
             {LosingEvent(id, Timestamp(5, 0)) : id \in {1, 2}})

\* zone events alone, over two objects and timestamps that give dwells below,
\* at and above the noise threshold
ATMMessages ==
    Messages({Timestamp(0, 0)}, {},
             {ZoneEvent(ty, z, o, t) :
                 ty \in {"ENTRY", "EXIT"}, z \in {1007, 42}, o \in {1, 2},
                 t \in {Timestamp(0, 0), Timestamp(2, 0), Timestamp(2, Nanos29),
                        Timestamp(5, 0)}},
             {})

\* object updates and loss events, over snapshots of every classification and
\* starting zone
LossMessages ==
    Messages({Timestamp(0, 0), Timestamp(7, 0)},
             {Person(1, zs) : zs \in {<<>>, <<1008>>, <<42>>, <<0>>}}
               \cup {Snapshot(1, 17, LABEL_MISC, <<>>),
                     Snapshot(1, 30, "LABEL_PEDESTRIAN", <<1008>>),
                     Snapshot(1, 25, "LABEL_PEDESTRIAN", <<>>)},
             {},
             {LosingEvent(1, Timestamp(4, Nanos29)), LosingEvent(1, Timestamp(9, 0)),
              LosingEvent(2, Timestamp(9, 0))})

\* updates of two objects, and zone events at two watched zones and one that
\* is not
ZoneMessages ==
    Messages({Timestamp(0, 0)},
             {Person(1, <<1007>>), Person(2, <<>>)},
             {ZoneEvent(ty, z, 1, t) :
                 ty \in {"ENTRY", "EXIT"}, z \in {1007, 1008, 42},
                 t \in {Timestamp(0, 0), Timestamp(3, 0)}},
             {})

\* messages with several items of each kind.  A message of timestamp 7 names
\* object 1 in its stream and in its first loss event, and no other message
\* has a loss event that is handled for object 1: a record of object 1 born
\* at 7 is lost in the message that created it.
OrderMessages ==
    LET P1 == Person(1, <<1007>>)
        P2 == Person(2, <<>>)
        En == ZoneEvent("ENTRY", 1007, 1, Timestamp(0, 0))
        Ex == ZoneEvent("EXIT", 1007, 1, Timestamp(3, 0))
        No == ZoneEvent("NONE", 1007, 1, Timestamp(0, 0))
        L(id) == LosingEvent(id, Timestamp(9, 0))
        ZS == {<<>>, <<En>>, <<En, Ex>>, <<Ex, En>>, <<No, En>>}
    IN  {[timestamp |-> Some(Timestamp(0, 0)), objects |-> os, zone |-> zs,
          losing |-> ls] :
            os \in {<<>>, <<P1>>, <<P2, P1>>}, zs \in ZS,
            ls \in {<<>>, <<L(2)>>, <<L(3), L(1)>>}}
        \cup
        {[timestamp |-> Some(Timestamp(7, 0)), objects |-> os, zone |-> zs,
          losing |-> ls] :
            os \in {<<P1>>, <<P2, P1>>}, zs \in ZS,
            ls \in {<<L(1)>>, <<L(1), L(3)>>}}

MessagesOf(src) ==
    CASE src = "all"   -> AllMessages
      [] src = "order" -> OrderMessages
      [] src = "atm"   -> ATMMessages
      [] src = "loss"  -> LossMessages
      [] src = "zones" -> ZoneMessages
      [] OTHER         -> {}

(***************************************************************************)
(* _on_get_output_message, one step per loop iteration.  The listener      *)
(* hands over the next message only when the one before has been handled:  *)
(* a step works on the message in hand or, between messages, on a new one  *)
(* from the source.                                                        *)
(***************************************************************************)
InHand ==
    IF message = NoMessage THEN {m \in MessagesOf(source) : InBounds(m)} ELSE {message}

\* the history of entry events after the event has been handled
FirstEnterAfter(handler, event) ==
    IF handler \notin {"entry", "exit"} \/ event.id \notin DOMAIN bank.ATMs
    THEN first_enter
    ELSE IF handler = "exit"
    THEN DictDel(first_enter, <<event.id, event.object_id>>)
    ELSE IF <<event.id, event.object_id>> \in DOMAIN first_enter
    THEN first_enter
    ELSE DictSet(first_enter, <<event.id, event.object_id>>, event.timestamp)

\* a timestamp's full value, seconds plus sub-second part, in milliseconds
FullMillis(t) == t.seconds * 1000 + (t.nanos \div 10^6)

\* the history of dwells after the event has been handled
DwellsAfter(handler, event) ==
    IF /\ handler = "exit"
       /\ <<event.id, event.object_id>> \in DOMAIN first_enter
       /\ FullMillis(event.timestamp)
            - FullMillis(first_enter[<<event.id, event.object_id>>]) > 2000
    THEN [dwells EXCEPT ![event.id] =
             Append(@, FullMillis(event.timestamp)
                         - FullMillis(first_enter[<<event.id, event.object_id>>]))]
    ELSE dwells

\* the history of object ids after the event has been handled, the handler
\* having printed the lines of printed
LifecycleAfter(handler, event, printed) ==
    IF handler = "losing" THEN DictDel(lifecycle, event.id)
    ELSE IF handler # "object" THEN lifecycle
    ELSE IF printed # <<>> /\ printed[1].line = "lives in bank too long."
    THEN DictSet(lifecycle, event.id, "evicted")
    ELSE IF event.id \in DOMAIN lifecycle THEN lifecycle
    ELSE DictSet(lifecycle, event.id, "seen")

\* the ids with a record made by the message in hand, after the event has been
\* handled with the outcome found, left being what is left of the message
CreatedAfter(handler, event, found, left) ==
    IF left = NoMessage THEN {}
    ELSE IF handler = "object" /\ ~found THEN created \cup {event.id}
    ELSE created

\* the handler call returned r; rest is the message without the item handled
Returned(handler, event, timestamp, rest, r) ==
    /\ bank' = r.self
    /\ call' = CallOf(handler, event, timestamp, r)
    /\ message' = AfterCall(rest, r)
    /\ first_enter' = FirstEnterAfter(handler, event)
    /\ dwells' = DwellsAfter(handler, event)
    /\ lifecycle' = LifecycleAfter(handler, event, call'.printed)
    /\ created' = CreatedAfter(handler, event, call'.found, message')
    /\ UNCHANGED <<source, avgtest>>

\* a message with no stream object and no event: every loop is empty
StepEmpty ==
    \E m \in InHand :
        /\ Rest(m) = NoMessage
        /\ call' = [NoCall EXCEPT !.handler = "empty"]
        /\ message' = NoMessage
        /\ created' = {}
        /\ UNCHANGED <<bank, first_enter, dwells, lifecycle, source, avgtest>>

StepObject ==
    \E m \in InHand :
        /\ m.objects # <<>>
        /\ Returned("object", Head(m.objects), Value(m.timestamp),
                    [m EXCEPT !.objects = Tail(@)],
                    Bank_on_stream_object(bank, Head(m.objects), Value(m.timestamp)))

StepZoneEntry ==
    \E m \in InHand :
        /\ m.objects = <<>>
        /\ m.zone # <<>>
        /\ Head(m.zone).type = "ENTRY"
        /\ LET ev == Head(m.zone)
           IN  Returned("entry", ev, ev.timestamp, [m EXCEPT !.zone = Tail(@)],
                        Bank_on_entry_event_handler(bank, ev.id, ev.object_id,
                                                    ev.timestamp))

StepZoneExit ==
    \E m \in InHand :
        /\ m.objects = <<>>
        /\ m.zone # <<>>
        /\ Head(m.zone).type = "EXIT"
        /\ LET ev == Head(m.zone)
           IN  Returned("exit", ev, ev.timestamp, [m EXCEPT !.zone = Tail(@)],
                        Bank_on_exit_event_handler(bank, ev.id, ev.object_id,
                                                   ev.timestamp))

\* a zone event of any other type is passed over
StepZoneOther ==
    \E m \in InHand :
        /\ m.objects = <<>>
        /\ m.zone # <<>>
        /\ Head(m.zone).type \notin {"ENTRY", "EXIT"}
        /\ call' = [NoCall EXCEPT !.handler = "skip"]
        /\ message' = Rest([m EXCEPT !.zone = Tail(@)])
        /\ created' = CreatedAfter("skip", Head(m.zone), FALSE, message')
        /\ UNCHANGED <<bank, first_enter, dwells, lifecycle, source, avgtest>>

StepLosing ==
    \E m \in InHand :
        /\ m.objects = <<>>
        /\ m.zone = <<>>
        /\ m.losing # <<>>
        /\ LET ev == Head(m.losing)
           IN  Returned("losing", ev, ev.timestamp, [m EXCEPT !.losing = Tail(@)],
                        Bank_on_losing_event_handler(bank, ev.id, ev.timestamp))

(***************************************************************************)
(* Spec: every kind of event.  SpecATM: zone events alone.  SpecLoss:      *)
(* object updates and loss events.  SpecZones: object updates and zone     *)
(* events at several zones.  SpecOrder: messages with several items.        *)
(***************************************************************************)
Next ==
    \/ StepEmpty
    \/ StepObject
    \/ StepZoneEntry
    \/ StepZoneExit
    \/ StepZoneOther
    \/ StepLosing

Spec == Init /\ [][Next]_vars

InitATM == Started("atm")

NextATM == StepEmpty \/ StepZoneEntry \/ StepZoneExit

SpecATM == InitATM /\ [][NextATM]_vars

InitLoss == Started("loss")

NextLoss == StepEmpty \/ StepObject \/ StepLosing

SpecLoss == InitLoss /\ [][NextLoss]_vars

InitZones == Started("zones")

NextZones == StepEmpty \/ StepObject \/ StepZoneEntry \/ StepZoneExit

SpecZones == InitZones /\ [][NextZones]_vars

InitOrder == Started("order")

SpecOrder == InitOrder /\ [][Next]_vars

(***************************************************************************)
(* SpecAvg: CumulativeAvg on its own.  Two accumulators are fed the same   *)
(* values, b in a permuted order.                                          *)
(***************************************************************************)
MaxN == 3

AvgValues == {-3, 0, 3, 4, 5}

Orderings(n) ==
    {f \in [1..n -> 1..n] : \A i, j \in 1..n : f[i] = f[j] => i = j}

InitAvg ==
    /\ bank = Bank_init
    /\ message = NoMessage
    /\ call = NoCall
    /\ first_enter = EmptyDict
    /\ dwells = [z \in FirstATM..LastATM |-> <<>>]
    /\ lifecycle = EmptyDict
    /\ created = {}
    /\ source = "none"
    /\ \E vs \in SeqsUpTo(AvgValues, MaxN) :
       \E f \in Orderings(Len(vs)) :
          avgtest = [a |-> CumulativeAvg_init, b |-> CumulativeAvg_init,
                     todo_a |-> vs, todo_b |-> [i \in 1..Len(vs) |-> vs[f[i]]],
                     fed |-> <<>>]

FeedAvg ==
    /\ avgtest.todo_a # <<>>
    /\ avgtest' = [a |-> CumulativeAvg_update(avgtest.a, Head(avgtest.todo_a)),
                   b |-> CumulativeAvg_update(avgtest.b, Head(avgtest.todo_b)),
                   todo_a |-> Tail(avgtest.todo_a),
                   todo_b |-> Tail(avgtest.todo_b),
                   fed |-> Append(avgtest.fed, Head(avgtest.todo_a))]
    /\ UNCHANGED <<bank, message, call, first_enter, dwells, lifecycle, created,
                    source>>

NextAvg == FeedAvg

SpecAvg == InitAvg /\ [][NextAvg]_vars

(***************************************************************************)
(* The claims.  In each, ev is the event the handler was called with, and  *)
(* in an action formula the unprimed state is the one the handler found.   *)
(***************************************************************************)
Event(c) == Value(c.event)

\* the handler call that has just returned was ATM.on_exit and found an entry
MatchedExit(c) == c.handler = "exit" /\ c.start_time # None

\* C1: immediately after an ATM on_exit that found a pending entry for the
\* object, the object is absent from that ATM's pending map, whatever the dwell
\* the call computed.
C1_MatchedExitRemovesEntry ==
    MatchedExit(call) =>
        Event(call).object_id \notin DOMAIN bank.ATMs[Event(call).id].residents

\* a matched exit whose dwell was negative, in an ATM that keeps another entry
C1_Witness ==
    /\ MatchedExit(call)
    /\ Value(call.resident_time) < 0
    /\ bank.ATMs[Event(call).id].residents # EmptyDict

\* the step is an ATM.on_exit that finds a pending entry for the event's object
ExitFindsEntry ==
    /\ call'.handler = "exit"
    /\ Event(call').id \in DOMAIN bank.ATMs
    /\ Event(call').object_id \in DOMAIN bank.ATMs[Event(call').id].residents

\* C4 (as stated): on an ATM on_exit that finds a pending entry, a dwell (the
\* exit timestamp minus the stored entry timestamp) that does not exceed 2.0 s
\* leaves the ATM's count and mean as they were, a dwell above 2.0 s adds
\* exactly one value, the dwell, to the ATM's running average, and the entry
\* is removed in both cases.
C4_NoiseThreshold ==
    [][ExitFindsEntry =>
          LET ev     == Event(call')
              before == bank.ATMs[ev.id]
              after  == bank'.ATMs[ev.id]
              dwell  == FullMillis(ev.timestamp)
                          - FullMillis(before.residents[ev.object_id])
          IN  /\ ev.object_id \notin DOMAIN after.residents
              /\ dwell <= 2000 => after.resident_avg = before.resident_avg
              /\ dwell > 2000 =>
                    /\ after.resident_avg.count = before.resident_avg.count + 1
                    /\ dwell % 1000 = 0 =>
                          after.resident_avg.avg =
                              cumulative_average(before.resident_avg.avg,
                                                 dwell \div 1000,
                                                 before.resident_avg.count + 1)]_vars

\* C7: an on_enter for an object that is already pending leaves the ATM as it
\* was and is no error, so the stored entry time stays that of the first
\* on_enter, and the on_exit that follows reads that first timestamp as the
\* start of the dwell.
C7_EnterIdempotent ==
    [][/\ (/\ call'.handler = "entry"
           /\ Event(call').id \in DOMAIN bank.ATMs
           /\ Event(call').object_id \in DOMAIN bank.ATMs[Event(call').id].residents)
          => (bank' = bank /\ call'.raised = Ok)
       /\ ExitFindsEntry
          => call'.start_time =
                Some(first_enter[<<Event(call').id, Event(call').object_id>>])
       /\ \A z \in DOMAIN bank'.ATMs : \A o \in DOMAIN bank'.ATMs[z].residents :
             /\ <<z, o>> \in DOMAIN first_enter'
             /\ bank'.ATMs[z].residents[o] = first_enter'[<<z, o>>]]_vars

\* a second entry event, with another timestamp, for an object still pending
C7_Witness ==
    /\ call.handler = "entry"
    /\ Event(call).id \in DOMAIN bank.ATMs
    /\ Event(call).object_id \in DOMAIN bank.ATMs[Event(call).id].residents
    /\ bank.ATMs[Event(call).id].residents[Event(call).object_id]
          # Event(call).timestamp

\* the step is an ATM.on_exit that finds no pending entry for the event's object
ExitFindsNoEntry ==
    /\ call'.handler = "exit"
    /\ Event(call').id \in DOMAIN bank.ATMs
    /\ Event(call').object_id \notin DOMAIN bank.ATMs[Event(call').id].residents

\* C8: an ATM on_exit for an object with no pending entry changes nothing (the
\* ATM's pending map, count and mean, and the rest of the tracker), raises
\* nothing, and the events that follow it in the message are still handled.
C8_UnmatchedExitNoOp ==
    [][ExitFindsNoEntry =>
          /\ bank' = bank
          /\ call'.raised = Ok
          /\ \E m \in InHand :
                /\ m.objects = <<>>
                /\ m.zone # <<>>
                /\ Head(m.zone) = Event(call')
                /\ message' = Rest([m EXCEPT !.zone = Tail(@)])]_vars

\* an unmatched exit, reported, with a loss event of the same message to come
C8_Witness ==
    /\ call.handler = "exit"
    /\ call.printed # <<>>
    /\ call.printed[1].line = "Error: not exist in ATM"
    /\ message.losing # <<>>

\* C6: a loss event for an object id without a residency record ends in an
\* error (the handler raises) and leaves the residents map, the global average
\* and every ATM as they were.
C6_UnknownLossIsError ==
    [][(/\ call'.handler = "losing"
        /\ Event(call').id \notin DOMAIN bank.residents)
          => (call'.raised # Ok /\ bank' = bank)]_vars

\* a loss event for an unknown id while another object has a record, the global
\* average has a value and an ATM has a pending entry
C6_Witness ==
    /\ call.handler = "losing"
    /\ ~call.found
    /\ Event(call).id \notin DOMAIN bank.residents
    /\ bank.residents # EmptyDict
    /\ bank.resident_avg.count = 1
    /\ bank.ATMs[1007].residents # EmptyDict

\* the step appends a snapshot to the record the object already has
AppendsSnapshot ==
    /\ call'.handler = "object"
    /\ Event(call').id \in DOMAIN bank.residents

\* C5 (as stated): when an object update appends a snapshot to an existing
\* record and the message timestamp minus the record's born time exceeds
\* 3600 s, the record is removed and the global average and every ATM are
\* unchanged; when it does not, the record stays, with the snapshot appended.
C5_ForcedEviction ==
    [][AppendsSnapshot =>
          LET obj == Event(call')
              rec == bank.residents[obj.id]
              age == FullMillis(Value(call'.timestamp)) - FullMillis(rec.born_time)
          IN  IF age > 3600 * 1000
              THEN /\ obj.id \notin DOMAIN bank'.residents
                   /\ bank'.resident_avg = bank.resident_avg
                   /\ bank'.ATMs = bank.ATMs
              ELSE /\ obj.id \in DOMAIN bank'.residents
                   /\ bank'.residents[obj.id].histories = Append(rec.histories, obj)
                   /\ bank'.residents[obj.id].born_time = rec.born_time]_vars

\* the step handles a loss event for an object that has a record
LossOfRecord ==
    /\ call'.handler = "losing"
    /\ Event(call').id \in DOMAIN bank.residents

AllMisc(histories) ==
    \A i \in 1..Len(histories) : histories[i].label = "LABEL_MISC"

\* heights are in tenths: the minimum exceeds 2.5 iff every height does
MinHeightOver25(histories) ==
    \A i \in 1..Len(histories) : histories[i].bbox_size_z > 25

\* C2: when a loss event finalizes a record whose snapshots all have the
\* miscellaneous label, or whose minimum bounding-box height exceeds 2.5, the
\* global average's count and mean are unchanged by the loss event.
C2_DoorMiscNotAveraged ==
    [][(/\ LossOfRecord
        /\ \/ AllMisc(bank.residents[Event(call').id].histories)
           \/ MinHeightOver25(bank.residents[Event(call').id].histories))
          => bank'.resident_avg = bank.resident_avg]_vars

\* a door record is discarded while the global average already holds a value
C2_Witness ==
    /\ call.handler = "losing"
    /\ call.found
    /\ call.printed # <<>>
    /\ call.printed[1].line = "is door."
    /\ bank.resident_avg.count = 1

\* C3 (as stated): after a loss event is handled for an object id that has a
\* record, the record is absent from the residents map, whatever the record is.
C3_RecordRemovedAfterLoss ==
    (call.handler = "losing" /\ call.found)
        => Event(call).id \notin DOMAIN bank.residents

\* the name the specification gives to a starting zone
ReportedZoneName(self, zone_id) ==
    IF zone_id = None \/ Value(zone_id) \notin DOMAIN self.zone_info
    THEN "No Zone"
    ELSE self.zone_info[Value(zone_id)]

\* C10 (as stated): when a person record (neither door nor misc) is finalized,
\* the handler completes normally and reports the lookup's name of the record's
\* starting zone, or "No Zone" when the record has no starting zone or the
\* lookup does not contain it.
C10_StartingZoneName ==
    [][(/\ LossOfRecord
        /\ ~AllMisc(bank.residents[Event(call').id].histories)
        /\ ~MinHeightOver25(bank.residents[Event(call').id].histories))
          => /\ call'.raised = Ok
             /\ call'.printed # <<>>
             /\ call'.printed[1].starting_zone =
                    ReportedZoneName(bank, bank.residents[Event(call').id].enter_zone)]_vars

RECURSIVE SumOf(_)
SumOf(sq) == IF sq = <<>> THEN 0 ELSE Head(sq) + SumOf(Tail(sq))

RECURSIVE MaxAbs(_)
MaxAbs(sq) ==
    IF sq = <<>> THEN 0
    ELSE IF Abs(Head(sq)) > MaxAbs(Tail(sq)) THEN Abs(Head(sq)) ELSE MaxAbs(Tail(sq))

\* the float nearest to the arithmetic mean of the integers in sq
MeanOf(sq) ==
    [FDivInt(Abs(SumOf(sq)), Len(sq)) EXCEPT !.s = Sgn(SumOf(sq))]

\* Len(sq) * x - SumOf(sq), exactly
MeanError(x, sq) ==
    ExactAdd([s |-> x.s, m |-> NatMulSmall(x.m, Len(sq)), e |-> x.e],
             [s |-> -Sgn(SumOf(sq)), m |-> NatOfInt(Abs(SumOf(sq))), e |-> 0])

\* |d| * 2^50 <= n * n * max, for d = [s, m, e] with e <= 0
ErrorWithin(d, n, max) ==
    \/ d.s = 0
    \/ NatCmp(NatShl(d.m, 50), NatShl(NatOfInt(n * n * max), -d.e)) <= 0

\* |x - mean(sq)| <= Len(sq) * 2^-50 * max|sq[i]|
WithinTolerance(x, sq) ==
    ErrorWithin(MeanError(x, sq), Len(sq), MaxAbs(sq))

\* both accumulators have been fed all the values, each in its own order
BothFed == avgtest.todo_a = <<>>

\* C9 (as stated): after update has been called with v1..vn on a fresh
\* accumulator, get() equals the arithmetic mean, the result is the same for
\* every permutation of the values, and the count equals n.
C9_MeanAnyOrder ==
    avgtest.fed # <<>> =>
        /\ CumulativeAvg_get(avgtest.a) = MeanOf(avgtest.fed)
        /\ avgtest.a.count = Len(avgtest.fed)
        /\ BothFed => CumulativeAvg_get(avgtest.a) = CumulativeAvg_get(avgtest.b)

\* C9 (amended): after update has been called with whole-number values v1..vn
\* on a fresh accumulator, the count equals n and get() is within
\* n * 2^-50 * max|vi| of the arithmetic mean, in whatever order the values
\* came; for n <= 2 get() is the mean exactly and the order makes no difference.
C9_MeanWithinRounding ==
    avgtest.fed # <<>> =>
        /\ avgtest.a.count = Len(avgtest.fed)
        /\ WithinTolerance(CumulativeAvg_get(avgtest.a), avgtest.fed)
        /\ Len(avgtest.fed) <= 2 => CumulativeAvg_get(avgtest.a) = MeanOf(avgtest.fed)
        /\ BothFed =>
              /\ avgtest.b.count = Len(avgtest.fed)
              /\ WithinTolerance(CumulativeAvg_get(avgtest.b), avgtest.fed)
              /\ Len(avgtest.fed) <= 2 =>
                     CumulativeAvg_get(avgtest.a) = CumulativeAvg_get(avgtest.b)

\* the same three values fed in two orders have given two different averages
C9_Witness ==
    /\ avgtest.fed = <<3, 4, 5>>
    /\ avgtest.todo_a = <<>>
    /\ CumulativeAvg_get(avgtest.a) # CumulativeAvg_get(avgtest.b)
    /\ CumulativeAvg_get(avgtest.b) = MeanOf(avgtest.fed)

\* C11 (as stated): the dwell computed at an ATM exit is the exit timestamp
\* minus the stored entry timestamp, and the dwell computed at finalize is the
\* loss timestamp minus the born timestamp, on the timestamps' full value; the
\* ATM average takes the dwell exactly when that full value exceeds 2.0 s.
C11_FullValueDwell ==
    [][/\ ExitFindsEntry =>
            LET ev    == Event(call')
                atm   == bank.ATMs[ev.id]
                dwell == FullMillis(ev.timestamp)
                           - FullMillis(atm.residents[ev.object_id])
            IN  /\ Value(call'.resident_time) * 1000 = dwell
                /\ (dwell > 2000) <=>
                      (bank'.ATMs[ev.id].resident_avg.count
                          = atm.resident_avg.count + 1)
       /\ (LossOfRecord /\ call'.resident_time # None) =>
            Value(call'.resident_time) * 1000 =
                FullMillis(Event(call').timestamp)
                  - FullMillis(bank.residents[Event(call').id].born_time)]_vars

\* the float nearest to the arithmetic mean of dwells given in milliseconds
MeanOfMillis(sq) == FDivInt(SumOf(sq), 1000 * Len(sq))

\* C12 (as stated): after any sequence of zone entry and exit events, each
\* ATM's running average is the arithmetic mean of the dwells of the matched
\* exits on that ATM whose dwell exceeded 2.0 s, and is 0 when there were none.
C12_ATMAverageIsMean ==
    \A z \in DOMAIN bank.ATMs :
        ATM_get_avg_resident_time(bank.ATMs[z]) =
            IF dwells[z] = <<>> THEN FZero ELSE MeanOfMillis(dwells[z])

\* the step handles a zone entry or exit event
ZoneEventStep == call'.handler \in {"entry", "exit"}

\* C13: a zone entry or exit event for zone id z changes only the ATM whose id
\* is z: when z is not a watched zone (1007..1011) no tracker state changes,
\* and when z is watched the other ATMs, the residents map and the global
\* average are unchanged.
C13_ZoneEventFrame ==
    [][ZoneEventStep =>
          /\ Event(call').id \notin 1007..1011 => bank' = bank
          /\ \A z \in (DOMAIN bank.ATMs) \ {Event(call').id} :
                bank'.ATMs[z] = bank.ATMs[z]
          /\ DOMAIN bank'.ATMs = DOMAIN bank.ATMs
          /\ bank'.residents = bank.residents
          /\ bank'.resident_avg = bank.resident_avg
          /\ bank'.zone_info = bank.zone_info]_vars

\* an exit at ATM 1007 has just been counted while ATM 1008 holds a pending
\* entry and a counted dwell, and an object has a record
C13_Witness ==
    /\ MatchedExit(call)
    /\ Event(call).id = 1007
    /\ bank.ATMs[1007].resident_avg.count = 1
    /\ bank.ATMs[1008].residents # EmptyDict
    /\ bank.ATMs[1008].resident_avg.count = 1
    /\ bank.residents # EmptyDict

\* C14: in every reachable state the residents map holds one record per object
\* id and the record under key id carries that id; each ATM is the one of its
\* zone, and a pending entry for an object is in the ATM of zone z exactly when
\* the pair (z, object) has had an entry event and no exit event since.
C14_OneRecordOneEntry ==
    /\ \A id \in DOMAIN bank.residents : bank.residents[id].id = id
    /\ \A z \in DOMAIN bank.ATMs :
          /\ bank.ATMs[z].target_zone_id = z
          /\ \A o \in DOMAIN bank.ATMs[z].residents : <<z, o>> \in DOMAIN first_enter
    /\ \A p \in DOMAIN first_enter :
          /\ p[1] \in DOMAIN bank.ATMs
          /\ p[2] \in DOMAIN bank.ATMs[p[1]].residents

\* two objects have records while one of them is pending at two ATMs at once
C14_Witness ==
    /\ DOMAIN bank.residents = {1, 2}
    /\ 1 \in DOMAIN bank.ATMs[1007].residents
    /\ 1 \in DOMAIN bank.ATMs[1008].residents
    /\ bank.ATMs[1007].residents[1] # bank.ATMs[1008].residents[1]

\* C15 (as stated): after a forced eviction of an object, the object's next
\* loss event, with any number of object updates for it in between, leaves the
\* global running average's count and mean unchanged.
C15_EvictedNeverAveraged ==
    [][(/\ call'.handler = "losing"
        /\ Event(call').id \in DOMAIN lifecycle
        /\ lifecycle[Event(call').id] = "evicted")
          => bank'.resident_avg = bank.resident_avg]_vars

\* C16 (as stated): when the source emits a loss event for an object id only
\* after an object update has named the id, and after no loss event for it
\* since, every loss event finds a record and the handler does not raise the
\* unknown-object error.
C16_WellFormedLossFindsRecord ==
    [][(/\ call'.handler = "losing"
        /\ Event(call').id \in DOMAIN lifecycle)
          => (/\ Event(call').id \in DOMAIN bank.residents
              /\ call'.raised # "AttributeError")]_vars

\* the first zone id of a snapshot, when it has one
FirstZoneOf(obj) == IF obj.zone_ids = <<>> THEN None ELSE Some(Head(obj.zone_ids))

\* C17 (as stated): a record's starting zone is write-once: unset until the
\* first snapshot with a non-empty zone set, then the first zone id of that
\* snapshot, and never changed by a later snapshot, whatever the zone id is
\* (zone id 0 included).
C17_StartingZoneWriteOnce ==
    [][(/\ call'.handler = "object"
        /\ Event(call').id \in DOMAIN bank'.residents)
          => LET obj == Event(call')
                 new == bank'.residents[obj.id].enter_zone
             IN  IF obj.id \in DOMAIN bank.residents
                    /\ bank.residents[obj.id].enter_zone # None
                 THEN new = bank.residents[obj.id].enter_zone
                 ELSE new = FirstZoneOf(obj)]_vars

\* the handler that a zone event of the type is passed to
HandlerOfType(type) ==
    IF type = "ENTRY" THEN "entry" ELSE IF type = "EXIT" THEN "exit" ELSE "skip"

\* the step handles the item of m that is next in the order stream objects,
\* zone events, loss events, and leaves the items after it in hand
HandlesNextOf(m) ==
    IF m.objects # <<>> THEN
        /\ call'.handler = "object"
        /\ Event(call') = Head(m.objects)
        /\ call'.timestamp = m.timestamp
        /\ message' = Rest([m EXCEPT !.objects = Tail(@)])
    ELSE IF m.zone # <<>> THEN
        /\ call'.handler = HandlerOfType(Head(m.zone).type)
        /\ call'.handler # "skip" => Event(call') = Head(m.zone)
        /\ message' = Rest([m EXCEPT !.zone = Tail(@)])
    ELSE IF m.losing # <<>> THEN
        /\ call'.handler = "losing"
        /\ Event(call') = Head(m.losing)
        /\ message' = Rest([m EXCEPT !.losing = Tail(@)])
    ELSE call'.handler = "empty" /\ message' = NoMessage

\* C18 (as stated): within one message the stream objects are applied first,
\* then the zone events in their listed order, then the loss events, and each
\* message is processed to its end before the next one; an object whose first
\* snapshot and loss event come in one message has its record created and then
\* finalized (removed) in that message, without the unknown-object error.
C18_MessageInOrderToEnd ==
    [][/\ IF message # NoMessage THEN HandlesNextOf(message)
          ELSE \E m \in MessagesOf(source) : HandlesNextOf(m)
       /\ (call'.handler = "losing" /\ Event(call').id \in created) =>
             (/\ Event(call').id \in DOMAIN bank.residents
              /\ call'.raised # "AttributeError"
              /\ Event(call').id \notin DOMAIN bank'.residents)]_vars

\* C19: object updates, forced evictions and loss events leave every ATM's
\* pending map and running average as they were; a pending entry leaves its
\* ATM only by a zone exit event for that zone and object, so it is still
\* there after the object has been lost or evicted.
C19_ATMsOnlyByZoneEvents ==
    [][/\ call'.handler \in {"object", "losing"} => bank'.ATMs = bank.ATMs
       /\ \A z \in DOMAIN bank.ATMs : \A o \in DOMAIN bank.ATMs[z].residents :
             \/ /\ o \in DOMAIN bank'.ATMs[z].residents
                /\ bank'.ATMs[z].residents[o] = bank.ATMs[z].residents[o]
             \/ /\ call'.handler = "exit"
                /\ Event(call').id = z
                /\ Event(call').object_id = o]_vars

\* a person has just been lost and finalized while ATM 1007, which has counted
\* a dwell, still holds the pending entry of that object
C19_Witness ==
    /\ call.handler = "losing"
    /\ call.found
    /\ call.raised = Ok
    /\ Event(call).id \notin DOMAIN bank.residents
    /\ Event(call).id \in DOMAIN bank.ATMs[1007].residents
    /\ bank.ATMs[1007].resident_avg.count = 1

====
